---- MODULE Spec2Model ----
(***************************************************************************)
(* Payment reconciliation of the Love Pages backend: the PayPal and        *)
(* MercadoPago webhook handlers, the PayPal capture endpoint, the status   *)
(* endpoint, the simulation endpoint and activateProPlan, over the user    *)
(* store (Mongoose documents) and the two providers' payment state.        *)
(*                                                                         *)
(* A request is a record in a slot of `reqs`.  One action is the code a    *)
(* handler runs between two awaits: JavaScript runs it without             *)
(* interleaving, and other requests run only while a handler is waiting    *)
(* for a provider call, User.findById or user.save().                      *)
(***************************************************************************)
EXTENDS Integers, Sequences, FiniteSets, TLC

\* ---------------------------------------------------------------- bounds
\* Number of HTTP requests a behaviour receives.
MaxReq == 3
\* Number of requests that may be in flight at the same time.
MaxInFlight == 2

\* ------------------------------------------------------- program constants
\* getPaymentInfo(paymentId, maxRetries = 5, delayMs = 2000)
maxRetries == 5

\* -------------------------------------------------------------- universes
Users == {"u1", "u2"}
\* The users who start a checkout; the others only call the endpoints.
Buyers == {"u1"}
OrderIds == {"o1"}
PayIds == {"1"}
\* The id PayPal gives the capture of an order; never the order's own id.
CaptureIdOf(o) == IF o = "o1" THEN "c1" ELSE "c2"

\* ------------------------------------------------------ JavaScript values
\* A value is <<tag, text>>: 1 and "1" are different values (=== is false).
Str(s) == <<"str", s>>
Num(s) == <<"num", s>>
Undef == <<"undef", "">>
\* Number.prototype.toString / String(x): the decimal text of a number.
JsToString(x) == IF x[1] = "num" THEN <<"str", x[2]>> ELSE x
\* String.prototype.toLowerCase on the order statuses PayPal reports.
ToLowerCase(s) ==
    CASE s = "COMPLETED" -> "completed"
      [] s = "APPROVED" -> "approved"
      [] s = "CREATED" -> "created"
      [] OTHER -> s

\* ------------------------------------------------------- provider details
\* What a provider call returns.  PayPal: the order (id, status, the first
\* capture's id and status, purchase_units[0].custom_id).  MercadoPago: the
\* payment (id, status, status_detail, external_reference).  A field the
\* provider does not send is "absent" or Undef (undefined under ?.).
NoDetails ==
    [provider |-> "none", id |-> Undef, status |-> "absent",
     status_detail |-> "absent", captureStatus |-> "absent",
     captureId |-> Undef, customRef |-> "absent"]

OrderDetails(o, ord) ==
    [provider |-> "paypal", id |-> Str(o), status |-> ord.status,
     status_detail |-> "absent",
     captureStatus |-> ord.captureStatus,
     captureId |-> IF ord.captureStatus = "absent" THEN Undef ELSE Str(CaptureIdOf(o)),
     customRef |-> ord.custom_id]

PaymentDetails(p, pay) ==
    [provider |-> "mercadopago", id |-> Num(p), status |-> pay.status,
     status_detail |-> pay.status_detail, captureStatus |-> "absent",
     captureId |-> Undef, customRef |-> pay.external_reference]

\* ------------------------------------------------------------ adapters
\* Variant: the presence of a capture is enough.
isPaymentCompleted_presence(orderDetails) ==
    /\ orderDetails.status = "COMPLETED"
    /\ orderDetails.captureStatus # "absent"

\* PayPalService.isPaymentCompleted
isPaymentCompleted(orderDetails) ==
    /\ orderDetails.status = "COMPLETED"
    /\ orderDetails.captureStatus = "COMPLETED"

\* Variant: the status alone decides.
isPaymentApproved_status(paymentInfo) == paymentInfo.status = "approved"

\* MercadoPagoService.isPaymentApproved
isPaymentApproved(paymentInfo) ==
    /\ paymentInfo.status = "approved"
    /\ paymentInfo.status_detail = "accredited"

\* The final-success predicate of the provider that produced the details.
IsFinalSuccess(d) ==
    IF d.provider = "paypal" THEN isPaymentCompleted(d) ELSE isPaymentApproved(d)

\* PayPalService.formatPaymentData
PayPalFormatPaymentData(orderDetails) ==
    [paymentId |-> IF orderDetails.captureId # Undef
                   THEN orderDetails.captureId ELSE orderDetails.id,
     mercadoPagoId |-> Undef,
     paypalOrderId |-> orderDetails.id,
     status |-> ToLowerCase(orderDetails.status),
     statusDetail |-> IF orderDetails.captureStatus # "absent"
                      THEN orderDetails.captureStatus ELSE "completed",
     provider |-> "absent"]

\* MercadoPagoService.formatPaymentData
MercadoPagoFormatPaymentData(paymentInfo) ==
    [paymentId |-> paymentInfo.id,
     mercadoPagoId |-> JsToString(paymentInfo.id),
     paypalOrderId |-> Undef,
     status |-> paymentInfo.status,
     statusDetail |-> paymentInfo.status_detail,
     provider |-> "absent"]

\* ------------------------------------------------------------ user model
\* Mongoose casts a pushed subdocument to the payments schema of User.js:
\* { paymentId: String, amount, currency, status, date, mercadoPagoId: String }.
\* Paths the schema does not declare are dropped (strict mode); String paths
\* are cast with String(x).
CastString(x) == IF x = Undef THEN Undef ELSE JsToString(x)
CastPayment(p) ==
    [paymentId |-> CastString(p.paymentId),
     mercadoPagoId |-> CastString(p.mercadoPagoId),
     paypalOrderId |-> Undef,
     status |-> p.status,
     statusDetail |-> "absent",
     provider |-> "absent"]

\* userSchema defaults of a new user.
NewUser == [isPro |-> FALSE, proExpiresAt |-> "null", payments |-> <<>>]

\* Variant: a missing expiry date counts as expired.
isProActive_expired(user) ==
    IF ~user.isPro THEN FALSE
    ELSE IF user.proExpiresAt = "null" THEN FALSE
    ELSE FALSE

\* userSchema.methods.isProActive; proExpiresAt is only ever null here.
isProActive(user) ==
    IF ~user.isPro THEN FALSE
    ELSE IF user.proExpiresAt = "null" THEN TRUE
    ELSE FALSE

\* activateProPlan: the id the idempotency lookup is keyed by.
ActivatePaymentId(paymentInfo, provider) ==
    IF provider = "paypal" THEN paymentInfo.id ELSE JsToString(paymentInfo.id)

\* activateProPlan: user.payments.some(...)
paymentExists(payments, paymentId) ==
    \E i \in 1..Len(payments) :
        \/ payments[i].paymentId = paymentId
        \/ payments[i].mercadoPagoId = paymentId
        \/ payments[i].paypalOrderId = paymentId

\* ------------------------------------------------------------------ state
VARIABLES
    users,      \* the users collection: _id -> the document as last stored
    accounts,   \* the _ids whose document is in the collection
    orders,     \* PayPal's orders: id -> status, first capture, custom_id
    mppayments, \* MercadoPago's payments: id -> status, detail, reference
    prefs,      \* users a MercadoPago preference was created for
    env,        \* process.env: is PAYPAL_WEBHOOK_ID set? (NODE_ENV: development)
    reqs,       \* the HTTP requests being handled: slot -> request
    arrived,    \* how many requests have arrived
    probe       \* a provider answer handed to its final-success predicate

vars == <<users, accounts, orders, mppayments, prefs, env, reqs, arrived, probe>>

Slots == 1..MaxInFlight

NoOrder == [status |-> "NONE", captureStatus |-> "absent", custom_id |-> "absent"]
NoPayment == [status |-> "NONE", status_detail |-> "absent", external_reference |-> "absent"]
NoDoc == [id |-> "none", isPro |-> FALSE, proExpiresAt |-> "null", payments |-> <<>>]
\* What a MercadoPago notification says about the payment besides its id:
\* a status and a user.  Nothing, or an approval that names another user.
NoEmbedded == [status |-> "absent", user |-> "absent"]
Embedded == {NoEmbedded, [status |-> "approved", user |-> "u2"]}
NoInput ==
    [event |-> "none", ref |-> "none", sig |-> "none", oid |-> "none",
     format |-> "none", action |-> "none", pid |-> Undef, provider |-> "none",
     embedded |-> NoEmbedded]

\* A request that has not arrived.  resp is what was sent on res, in order;
\* the fields after resp record what the request did (they steer nothing).
Idle ==
    [kind |-> "none", pc |-> "idle", caller |-> "none", input |-> NoInput,
     user |-> NoDoc, details |-> NoDetails, attempt |-> 0, resp |-> <<>>,
     ioBeforeAck |-> FALSE, verification |-> "none", fetched |-> FALSE,
     sentCapture |-> FALSE, reconciled |-> FALSE, paymentId |-> Undef,
     saved |-> FALSE, raced |-> FALSE, captured |-> "none", lostRace |-> FALSE,
     orphan |-> FALSE, lastError |-> "none", saveFailed |-> FALSE, stale |-> FALSE]

\* The next request is handled in the lowest free slot.
CanArrive(r) ==
    /\ arrived < MaxReq
    /\ reqs[r].pc = "idle"
    /\ \A q \in Slots : q < r => reqs[q].pc # "idle"

\* Request r goes on as rq.
Continue(r, rq) == reqs' = [reqs EXCEPT ![r] = rq]

\* The document findById / authenticate hands to a handler.
Doc(u) == [id |-> u, isPro |-> users[u].isPro,
           proExpiresAt |-> users[u].proExpiresAt, payments |-> users[u].payments]

\* Variant: the lookup answers from the documents ever stored.
findById_stale(id) == IF id \in Users THEN Doc(id) ELSE NoDoc

\* User.findById(id): null when no document has the id.
findById(id) == IF id \in accounts THEN Doc(id) ELSE NoDoc

\* res.status(code).send(...)
Send(rq, code) == [rq EXCEPT !.resp = Append(@, code)]
\* The handler returns (or its catch block only logs).
\* Of a finished request the answer and what it did are kept; the details
\* are kept for the endpoints that answer from them, and req.user for the
\* capture endpoint.
Finish(rq) ==
    [rq EXCEPT !.pc = "done", !.attempt = 0, !.input = NoInput, !.lastError = "none",
               !.user = IF rq.kind = "capture" THEN @ ELSE NoDoc,
               !.details = IF rq.kind \in {"capture", "status"} THEN @ ELSE NoDetails]
\* An awaited call to a provider or to the store happens now.
Io(rq) == [rq EXCEPT !.ioBeforeAck = @ \/ (rq.resp = <<>>)]

\* No provider answer is being tested.
NoProbe == [details |-> NoDetails, evaluated |-> FALSE, result |-> FALSE]

Init ==
    /\ probe = NoProbe
    /\ users = [u \in Users |-> NewUser]
    /\ accounts = Users
    /\ orders = [o \in OrderIds |-> NoOrder]
    /\ mppayments = [p \in PayIds |-> NoPayment]
    /\ prefs = {}
    /\ env \in [webhookId : BOOLEAN]
    /\ reqs = [r \in Slots |-> Idle]
    /\ arrived = 0

\* ------------------------------------------------------- reconciliation
\* The receiver a route gives a controller method.  webhookRoutes.js calls
\* paymentController.handle...Webhook(req, res): this is the controller.
\* paymentRoutes.js hands the method itself to router.post/get: Express calls
\* it as a plain function and this is undefined (class bodies are strict).
ThisOf(kind) ==
    IF kind \in {"ppWebhook", "mpWebhook"} THEN "controller" ELSE "undefined"

\* activateProPlan up to its await user.save(): the lookup, and for a new
\* payment the flag and the push on the handler's own copy of the user.
\* pc "returned": paymentExists, nothing to save.
activateProPlan(rq, user, paymentInfo, provider) ==
    LET paymentId == ActivatePaymentId(paymentInfo, provider)
        formattedPayment ==
            IF provider = "paypal" THEN PayPalFormatPaymentData(paymentInfo)
            ELSE MercadoPagoFormatPaymentData(paymentInfo)
        tagged == [formattedPayment EXCEPT !.provider = provider]
        rq1 == [rq EXCEPT !.reconciled = TRUE, !.paymentId = paymentId]
    IN  IF paymentExists(user.payments, paymentId)
        THEN [rq1 EXCEPT !.pc = "returned"]
        ELSE [rq1 EXCEPT !.pc = "save",
                         !.user = [user EXCEPT !.isPro = TRUE,
                                               !.proExpiresAt = "null",
                                               !.payments = Append(@, CastPayment(tagged))]]

\* What a handler does when activateProPlan returns without saving.
AfterReturn(rq) ==
    IF rq.pc # "returned" THEN rq
    ELSE IF rq.kind = "capture" THEN Finish(Send(rq, 200))
    ELSE Finish(rq)

\* The ids under which the records of one payment are stored: the lookup key
\* itself and, for a PayPal order, the id of its capture.
IdsOfPayment(paymentId) ==
    {paymentId} \cup {Str(CaptureIdOf(o)) : o \in {x \in OrderIds : Str(x) = paymentId}}

\* The stored records of user u that belong to the payment.
RecordsOf(u, paymentId) ==
    {i \in 1..Len(users[u].payments) :
        \/ users[u].payments[i].paymentId \in IdsOfPayment(paymentId)
        \/ users[u].payments[i].mercadoPagoId = paymentId
        \/ users[u].payments[i].paypalOrderId = paymentId}

\* Variant: a save that fails has already written the flag.
save_partial(stored, doc, ok) ==
    IF ok
    THEN [isPro |-> doc.isPro, proExpiresAt |-> doc.proExpiresAt,
          payments |-> Append(stored.payments, doc.payments[Len(doc.payments)])]
    ELSE [stored EXCEPT !.isPro = doc.isPro]

\* Variant: the history is replaced by the record pushed last.
save_latest(stored, doc, ok) ==
    IF ok
    THEN [isPro |-> doc.isPro, proExpiresAt |-> doc.proExpiresAt,
          payments |-> <<doc.payments[Len(doc.payments)]>>]
    ELSE stored

\* Variant: the whole document of the copy is written.
save_document(stored, doc, ok) ==
    IF ok
    THEN [isPro |-> doc.isPro, proExpiresAt |-> doc.proExpiresAt,
          payments |-> doc.payments]
    ELSE stored

\* What the store holds after user.save() of the copy doc: Mongoose sends
\* the changes of the copy in one update, $set of the modified paths and
\* $push of the pushed record, not the whole document; a save that fails
\* stores nothing.
save(stored, doc, ok) ==
    IF ok
    THEN [isPro |-> doc.isPro, proExpiresAt |-> doc.proExpiresAt,
          payments |-> Append(stored.payments, doc.payments[Len(doc.payments)])]
    ELSE stored

\* await user.save().  A failing save throws: the capture and simulation
\* endpoints answer 500, a webhook handler logs.  The save of a document
\* that was deleted stores nothing.  stale: records were stored since the
\* copy was loaded.
Save(r) ==
    LET rq == reqs[r]
        u == rq.user.id
        pushed == rq.user.payments[Len(rq.user.payments)]
        loadedLen == Len(rq.user.payments) - 1
        stored == users[u].payments
        raced == \E i \in (loadedLen + 1)..Len(stored) :
                    stored[i].paymentId = pushed.paymentId
    IN  /\ rq.pc = "save"
        /\ \E ok \in BOOLEAN :
            /\ users' = [users EXCEPT ![u] = save(@, rq.user, ok /\ u \in accounts)]
            /\ IF ok /\ u \in accounts
               THEN Continue(r,
                        LET done == [Io(rq) EXCEPT !.saved = TRUE, !.raced = raced,
                                                   !.stale = Len(stored) > loadedLen]
                        IN  IF rq.kind \in {"capture", "simulate"}
                            THEN Finish(Send(done, 200)) ELSE Finish(done))
               ELSE Continue(r,
                        LET failed == [Io(rq) EXCEPT !.saveFailed = TRUE]
                        IN  IF rq.kind \in {"capture", "simulate"}
                            THEN Finish(Send(failed, 500)) ELSE Finish(failed))
        /\ UNCHANGED <<probe, accounts, orders, mppayments, prefs, env, arrived>>

\* Webhook handlers after the provider lookup: User.findById(reference),
\* the final-success test and activateProPlan.
Load(r) ==
    LET d == reqs[r].details
        rq == [Io(reqs[r]) EXCEPT !.orphan = (d.customRef \notin accounts)]
        user == findById(d.customRef)
    IN  /\ rq.pc = "load"
        /\ Continue(r,
                IF user = NoDoc THEN Finish(rq)
                ELSE IF IsFinalSuccess(d)
                     THEN AfterReturn(activateProPlan(rq, user, d, d.provider))
                     ELSE Finish(rq))
        /\ UNCHANGED <<probe, accounts, users, orders, mppayments, prefs, env, arrived>>

\* ----------------------------------------------------------------- PayPal
PayPalEvents == {"PAYMENT.CAPTURE.COMPLETED", "CHECKOUT.ORDER.APPROVED", "OTHER"}

\* PayPal signs only events that happened: a capture-completed event for an
\* order whose capture is completed, an approval event for an approved order.
Genuine(event, o) ==
    CASE event = "PAYMENT.CAPTURE.COMPLETED" -> isPaymentCompleted(OrderDetails(o, orders[o]))
      [] event = "CHECKOUT.ORDER.APPROVED" -> orders[o].status \in {"APPROVED", "COMPLETED"}
      [] OTHER -> TRUE

\* Variant: without a webhook id the signature is taken as good.
verifyWebhookSignature_lenient(webhookId, answer) ==
    IF ~webhookId THEN TRUE ELSE answer = "SUCCESS"

\* PayPalService.verifyWebhookSignature: false without PAYPAL_WEBHOOK_ID,
\* false when the verification call throws, else whether PayPal answered
\* verification_status SUCCESS.
verifyWebhookSignature(webhookId, answer) ==
    IF ~webhookId THEN FALSE
    ELSE IF answer = "error" THEN FALSE
    ELSE answer = "SUCCESS"

\* POST /api/webhooks/paypal.  A body express.json() cannot parse is answered
\* 400 by the error handler of server.js and the route is not reached.  The
\* handler answers 200 and then starts verifying.
PayPalWebhookArrives(r) ==
    /\ CanArrive(r)
    /\ \E wellFormed \in BOOLEAN, event \in PayPalEvents, o \in OrderIds,
          ref \in {"supplementary_data", "links", "none"},
          sig \in {"valid", "tampered", "missing"} :
        /\ sig = "valid" => wellFormed /\ Genuine(event, o)
        /\ event # "PAYMENT.CAPTURE.COMPLETED" => ref = "none"
        /\ ~wellFormed => event = "OTHER" /\ sig = "missing"
        /\ LET rq == [Idle EXCEPT !.kind = "ppWebhook",
                                  !.input = [NoInput EXCEPT !.event = event, !.ref = ref,
                                                            !.sig = sig, !.oid = o]]
           IN  Continue(r,
                    IF ~wellFormed THEN Finish(Send(rq, 400))
                    ELSE [Send(rq, 200) EXCEPT !.pc = "verify"])
    /\ arrived' = arrived + 1
    /\ UNCHANGED <<probe, accounts, users, orders, mppayments, prefs, env>>

\* PayPalService.processWebhookNotification up to its first await.
\* PAYMENT.CAPTURE.COMPLETED: the order id comes from supplementary_data or
\* from the "up" link, else the event is not processed.
\* CHECKOUT.ORDER.APPROVED: capturePayment(resource.id).  Any other event is
\* not processed.
processWebhookNotification(rq) ==
    CASE rq.input.event = "PAYMENT.CAPTURE.COMPLETED" ->
            IF rq.input.ref = "none" THEN Finish(rq) ELSE [rq EXCEPT !.pc = "process"]
      [] rq.input.event = "CHECKOUT.ORDER.APPROVED" -> [rq EXCEPT !.pc = "capfetch"]
      [] OTHER -> Finish(rq)

\* handlePayPalWebhook: await verifyWebhookSignature; an invalid one returns,
\* a valid one goes on to processWebhookNotification(req.body).
PayPalVerify(r) ==
    LET rq == reqs[r]
    IN  /\ rq.pc = "verify"
        /\ \E answer \in {"SUCCESS", "FAILURE", "error"} :
            /\ answer = "SUCCESS" => rq.input.sig = "valid"
            /\ LET rq1 == [Io(rq) EXCEPT !.verification =
                                IF env.webhookId THEN answer ELSE "no webhook id"]
               IN  Continue(r,
                        IF verifyWebhookSignature(env.webhookId, answer)
                        THEN processWebhookNotification(rq1)
                        ELSE Finish(rq1))
        /\ UNCHANGED <<probe, accounts, users, orders, mppayments, prefs, env, arrived>>

\* Variant: an order the payer has not approved is captured as well.
CapturableStatus_created(status) == status \in {"APPROVED", "CREATED"}

\* PayPalService.capturePayment after getOrderDetails answered: a completed
\* order is returned as it is, an order that is not approved throws, an
\* approved one goes on to the capture request.
CapturableStatus(status) == status = "APPROVED"

\* Variant: the capture endpoint credits its caller through the controller,
\* whoever the order is attributed to.
AfterCapture_unchecked(rq, d) ==
    LET rq1 == [rq EXCEPT !.details = d, !.captured = "returned"]
    IN  IF rq.kind = "capture"
        THEN IF isPaymentCompleted(d)
             THEN AfterReturn(activateProPlan(rq1, rq1.user, d, "paypal"))
             ELSE Finish(Send(rq1, 400))
        ELSE IF isPaymentCompleted(d) THEN [rq1 EXCEPT !.pc = "load"]
             ELSE Finish(rq1)

\* What the caller of capturePayment does with the captured order.
\* capturePayPalPayment: 403 for another user's order; for a completed
\* payment this.activateProPlan, which throws a TypeError when this is
\* undefined (caught: 500); else 400.
\* processWebhookNotification (CHECKOUT.ORDER.APPROVED): processed only when
\* the captured order is completed.
AfterCapture(rq, d) ==
    LET rq1 == [rq EXCEPT !.details = d, !.captured = "returned"]
    IN  IF rq.kind = "capture"
        THEN IF d.customRef # rq.caller THEN Finish(Send(rq1, 403))
             ELSE IF isPaymentCompleted(d)
                  THEN IF ThisOf(rq.kind) = "undefined" THEN Finish(Send(rq1, 500))
                       ELSE AfterReturn(activateProPlan(rq1, rq1.user, d, "paypal"))
                  ELSE Finish(Send(rq1, 400))
        ELSE IF isPaymentCompleted(d) THEN [rq1 EXCEPT !.pc = "load"]
             ELSE Finish(rq1)

\* capturePayment throws (every error is rethrown as one Error): the capture
\* endpoint answers 500, processWebhookNotification logs and is not processed.
CaptureThrows(rq) ==
    LET rq1 == [rq EXCEPT !.captured = "threw"]
    IN  IF rq.kind = "capture" THEN Finish(Send(rq1, 500)) ELSE Finish(rq1)

\* capturePayment: await getOrderDetails(orderId) and the status tests.
CaptureFetch(r) ==
    LET rq == Io(reqs[r])
        o == rq.input.oid
        d == OrderDetails(o, orders[o])
    IN  /\ rq.pc = "capfetch"
        /\ \E ok \in BOOLEAN :
            Continue(r,
                IF ~ok \/ orders[o].status = "NONE" THEN CaptureThrows(rq)
                ELSE IF d.status = "COMPLETED"
                     THEN AfterCapture([rq EXCEPT !.fetched = TRUE], d)
                ELSE IF ~CapturableStatus(d.status)
                     THEN CaptureThrows([rq EXCEPT !.fetched = TRUE, !.details = d])
                ELSE [rq EXCEPT !.fetched = TRUE, !.details = d, !.pc = "capsend"])
        /\ UNCHANGED <<probe, accounts, users, orders, mppayments, prefs, env, arrived>>

\* capturePayment: await client.execute(OrdersCaptureRequest).  PayPal
\* captures an approved order (the capture completes or stays pending) and
\* refuses any other; the call may also fail before reaching PayPal.  An
\* order found completed here was captured by another call since this one
\* read it as approved: the capture race is lost.
CaptureSend(r) ==
    LET rq == [Io(reqs[r]) EXCEPT !.sentCapture = TRUE]
        o == rq.input.oid
    IN  /\ rq.pc = "capsend"
        /\ \/ /\ orders[o].status = "APPROVED"
              /\ \E cs \in {"COMPLETED", "PENDING"} :
                    /\ orders' = [orders EXCEPT ![o].status = "COMPLETED",
                                                ![o].captureStatus = cs]
                    /\ Continue(r, AfterCapture(rq, OrderDetails(o, orders'[o])))
           \/ /\ orders' = orders
              /\ Continue(r, CaptureThrows(
                    [rq EXCEPT !.lostRace = (orders[o].status = "COMPLETED")]))
        /\ UNCHANGED <<probe, accounts, users, mppayments, prefs, env, arrived>>

\* processWebhookNotification (PAYMENT.CAPTURE.COMPLETED): await
\* getOrderDetails(orderId); a failing call throws and the handler logs.
PayPalProcess(r) ==
    LET rq == Io(reqs[r])
        o == rq.input.oid
    IN  /\ rq.pc = "process"
        /\ \E ok \in BOOLEAN :
            Continue(r,
                IF ~ok \/ orders[o].status = "NONE" THEN Finish(rq)
                ELSE [rq EXCEPT !.fetched = TRUE,
                                !.details = OrderDetails(o, orders[o]),
                                !.pc = "load"])
        /\ UNCHANGED <<probe, accounts, users, orders, mppayments, prefs, env, arrived>>

\* POST /api/payments/paypal/capture/:orderId: authenticate loads req.user,
\* capturePayPalPayment starts capturePayment(orderId).
CaptureArrives(r) ==
    /\ CanArrive(r)
    /\ \E u \in accounts, o \in OrderIds :
        Continue(r,
            [Io(Idle) EXCEPT !.kind = "capture", !.caller = u, !.user = Doc(u),
                             !.input = [NoInput EXCEPT !.oid = o], !.pc = "capfetch"])
    /\ arrived' = arrived + 1
    /\ UNCHANGED <<probe, accounts, users, orders, mppayments, prefs, env>>

\* GET /api/payments/:provider/:paymentId/status for PayPal: await
\* getOrderDetails; 403 for another user's order, else 200.
StatusAnswer(rq, d) ==
    IF d.customRef # rq.caller THEN Finish(Send([rq EXCEPT !.details = d], 403))
    ELSE Finish(Send([rq EXCEPT !.details = d], 200))

StatusFetch(r) ==
    LET rq == Io(reqs[r])
        o == rq.input.oid
    IN  /\ rq.pc = "stfetch"
        /\ \E ok \in BOOLEAN :
            Continue(r,
                IF ~ok \/ orders[o].status = "NONE" THEN Finish(Send(rq, 500))
                ELSE StatusAnswer([rq EXCEPT !.fetched = TRUE], OrderDetails(o, orders[o])))
        /\ UNCHANGED <<probe, accounts, users, orders, mppayments, prefs, env, arrived>>

\* checkPaymentStatus: authenticate, then the provider named in the path.
StatusArrives(r) ==
    /\ CanArrive(r)
    /\ \E u \in accounts, provider \in {"paypal", "mercadopago", "other"} :
        LET rq == [Io(Idle) EXCEPT !.kind = "status", !.caller = u, !.user = Doc(u),
                                   !.input = [NoInput EXCEPT !.provider = provider]]
        IN  \/ /\ provider = "paypal"
               /\ \E o \in OrderIds :
                    Continue(r, [rq EXCEPT !.input.oid = o, !.pc = "stfetch"])
            \/ /\ provider = "mercadopago"
               /\ \E p \in PayIds :
                    Continue(r,
                        [rq EXCEPT !.input.pid = Str(p), !.attempt = 1, !.pc = "mpfetch"])
            \/ /\ provider = "other"
               /\ Continue(r, Finish(Send(rq, 400)))
    /\ arrived' = arrived + 1
    /\ UNCHANGED <<probe, accounts, users, orders, mppayments, prefs, env>>

\* ------------------------------------------------------------ MercadoPago
\* The notifications MercadoPago (or anyone) posts: the body's action and
\* type, and the legacy query string's topic/type.
MercadoPagoNotifications ==
    {[bodyAction |-> "payment.created", bodyType |-> "payment", queryType |-> "absent"],
     [bodyAction |-> "payment.updated", bodyType |-> "payment", queryType |-> "absent"],
     [bodyAction |-> "application.deauthorized", bodyType |-> "mp-connect", queryType |-> "absent"],
     [bodyAction |-> "absent", bodyType |-> "payment", queryType |-> "absent"],
     [bodyAction |-> "absent", bodyType |-> "absent", queryType |-> "payment"],
     [bodyAction |-> "absent", bodyType |-> "absent", queryType |-> "merchant_order"],
     [bodyAction |-> "absent", bodyType |-> "absent", queryType |-> "absent"]}

\* handleMercadoPagoWebhook: the body when it has an action or type payment,
\* else the legacy query string, else the format is not recognized.
WebhookData(n) ==
    IF n.bodyAction # "absent" \/ n.bodyType = "payment"
    THEN [recognized |-> TRUE, action |-> n.bodyAction, type |-> n.bodyType]
    ELSE IF n.queryType # "absent"
    THEN [recognized |-> TRUE, action |-> "absent", type |-> n.queryType]
    ELSE [recognized |-> FALSE, action |-> "absent", type |-> "absent"]

\* MercadoPagoService.processWebhookNotification: isPayment
isPayment(data) ==
    \/ data.type = "payment"
    \/ data.action = "payment.created"
    \/ data.action = "payment.updated"

\* POST /api/webhooks/mercadopago: 400 from server.js for a body that does
\* not parse; else 200 at once, then the notification is normalised and a
\* payment notification starts getPaymentInfo(data.id).
MercadoPagoWebhookArrives(r) ==
    /\ CanArrive(r)
    /\ \E wellFormed \in BOOLEAN, n \in MercadoPagoNotifications, p \in PayIds,
          e \in Embedded :
        /\ ~wellFormed => n.bodyAction = "absent" /\ n.bodyType = "absent" /\ n.queryType = "absent"
        /\ LET data == WebhookData(n)
               rq == [Idle EXCEPT !.kind = "mpWebhook",
                                  !.input = [NoInput EXCEPT !.action = data.action,
                                                            !.format = data.type,
                                                            !.pid = Str(p),
                                                            !.embedded = e]]
           IN  Continue(r,
                    IF ~wellFormed THEN Finish(Send(rq, 400))
                    ELSE IF ~data.recognized THEN Finish(Send(rq, 200))
                    ELSE IF ~isPayment(data) THEN Finish(Send(rq, 200))
                    ELSE [Send(rq, 200) EXCEPT !.attempt = 1, !.pc = "mpfetch"])
    /\ arrived' = arrived + 1
    /\ UNCHANGED <<probe, accounts, users, orders, mppayments, prefs, env>>

\* getPaymentInfo gave up or failed: processWebhookNotification rethrows and
\* the webhook handler logs; checkPaymentStatus answers 500.
PaymentInfoThrows(rq) ==
    IF rq.kind = "status" THEN Finish(Send(rq, 500)) ELSE Finish(rq)

\* Variant: what the notification says overrides what the provider returned.
PaymentInfoFound_embedded(rq, d) ==
    LET e == rq.input.embedded
        d1 == IF e.status = "absent" THEN d
              ELSE [d EXCEPT !.status = e.status, !.status_detail = "accredited",
                             !.customRef = e.user]
    IN  IF rq.kind = "status" THEN StatusAnswer(rq, d1)
        ELSE [rq EXCEPT !.details = d1, !.pc = "load"]

\* Variant: a payment that is found pending is fetched again.
PaymentInfoFound_poll(rq, d) ==
    IF d.status = "pending" /\ rq.attempt < maxRetries
    THEN [rq EXCEPT !.attempt = @ + 1]
    ELSE IF rq.kind = "status" THEN StatusAnswer(rq, d)
    ELSE [rq EXCEPT !.details = d, !.pc = "load"]

\* getPaymentInfo returned the payment.
PaymentInfoFound(rq, d) ==
    IF rq.kind = "status" THEN StatusAnswer(rq, d)
    ELSE [rq EXCEPT !.details = d, !.pc = "load"]

\* Variant: a 404 is retried whatever the attempt.
getPaymentInfo_unbounded(rq, outcome, d) ==
    IF outcome = "found"
    THEN PaymentInfoFound([rq EXCEPT !.fetched = TRUE, !.lastError = "none"], d)
    ELSE IF outcome = "404" THEN [rq EXCEPT !.attempt = @ + 1, !.lastError = outcome]
    ELSE IF rq.attempt = maxRetries THEN PaymentInfoThrows(rq)
    ELSE [rq EXCEPT !.attempt = @ + 1, !.lastError = outcome]

\* Variant: the first failed fetch gives up.
getPaymentInfo_once(rq, outcome, d) ==
    IF outcome = "found"
    THEN PaymentInfoFound([rq EXCEPT !.fetched = TRUE, !.lastError = "none"], d)
    ELSE PaymentInfoThrows(rq)

\* MercadoPagoService.getPaymentInfo, one attempt of its loop: the payment is
\* returned as soon as it is found; a failure is kept in lastError (its
\* status: 404, or any other error); a 404 with attempts left sleeps and
\* tries again; any other failure goes to the next attempt, and the last
\* attempt leaves the loop and throws.  lastError lives as long as the call.
getPaymentInfo(rq, outcome, d) ==
    IF outcome = "found"
    THEN PaymentInfoFound([rq EXCEPT !.fetched = TRUE, !.lastError = "none"], d)
    ELSE IF outcome = "404" /\ rq.attempt < maxRetries
         THEN [rq EXCEPT !.attempt = @ + 1, !.lastError = outcome]
    ELSE IF rq.attempt = maxRetries THEN PaymentInfoThrows(rq)
    ELSE [rq EXCEPT !.attempt = @ + 1, !.lastError = outcome]

MercadoPagoFetch(r) ==
    LET rq == Io(reqs[r])
        p == rq.input.pid[2]
    IN  /\ rq.pc = "mpfetch"
        /\ \E outcome \in {"found", "404", "error"} :
            /\ outcome = "found" => mppayments[p].status # "NONE"
            /\ Continue(r,
                    getPaymentInfo(rq, outcome, PaymentDetails(p, mppayments[p])))
        /\ UNCHANGED <<probe, accounts, users, orders, mppayments, prefs, env, arrived>>

\* ------------------------------------------------- the other endpoints
\* POST /api/payments/simulate-success (the route exists outside
\* production): the handler sets the flag, pushes a mock record on req.user
\* and awaits user.save().
mockPayment ==
    [paymentId |-> Str("mock"), mercadoPagoId |-> Str("mock"), paypalOrderId |-> Undef,
     status |-> "approved", statusDetail |-> "accredited", provider |-> "simulation"]

SimulateArrives(r) ==
    /\ CanArrive(r)
    /\ \E u \in accounts :
        LET user == Doc(u)
        IN  Continue(r,
                [Io(Idle) EXCEPT !.kind = "simulate", !.caller = u, !.pc = "save",
                        !.user = [user EXCEPT !.isPro = TRUE, !.proExpiresAt = "null",
                                              !.payments = Append(@, CastPayment(mockPayment))]])
    /\ arrived' = arrived + 1
    /\ UNCHANGED <<probe, accounts, users, orders, mppayments, prefs, env>>

\* A create-intent endpoint answered: it awaits one provider call only.
Answer(kind, u, code) ==
    Finish(Send([Io(Idle) EXCEPT !.kind = kind, !.caller = u], code))

\* POST /api/payments/paypal/create-order: 400 ALREADY_PRO for a user whose
\* PRO is active, else createProPlanOrder tags a new order with the user's id
\* (500 when the provider call fails).
CreatePayPalOrder(r, u) ==
    \E o \in OrderIds, ok \in BOOLEAN :
        /\ CanArrive(r)
        /\ u \in accounts
        /\ orders[o].status = "NONE"
        /\ IF isProActive(Doc(u))
           THEN /\ Continue(r, Answer("createOrder", u, 400))
                /\ orders' = orders
           ELSE IF ~ok
           THEN /\ Continue(r, Answer("createOrder", u, 500))
                /\ orders' = orders
           ELSE /\ Continue(r, Answer("createOrder", u, 200))
                /\ orders' = [orders EXCEPT ![o] =
                        [status |-> "CREATED", captureStatus |-> "absent", custom_id |-> u]]
        /\ arrived' = arrived + 1
        /\ UNCHANGED <<probe, accounts, users, mppayments, prefs, env>>

\* POST /api/payments/mercadopago/create-preference: the same for
\* createProPlanPreference, whose external_reference is the user's id.
CreateMercadoPagoPreference(r, u) ==
    \E ok \in BOOLEAN :
        /\ CanArrive(r)
        /\ u \in accounts
        /\ IF isProActive(Doc(u))
           THEN /\ Continue(r, Answer("createPreference", u, 400))
                /\ prefs' = prefs
           ELSE IF ~ok
           THEN /\ Continue(r, Answer("createPreference", u, 500))
                /\ prefs' = prefs
           ELSE /\ Continue(r, Answer("createPreference", u, 200))
                /\ prefs' = prefs \cup {u}
        /\ arrived' = arrived + 1
        /\ UNCHANGED <<probe, accounts, users, orders, mppayments, env>>

\* GET /api/payments/history: the handler answers from req.user; it awaits
\* nothing and writes nothing.
GetPaymentHistory(r) ==
    /\ CanArrive(r)
    /\ \E u \in accounts :
        Continue(r, Finish(Send([Idle EXCEPT !.kind = "history", !.caller = u], 200)))
    /\ arrived' = arrived + 1
    /\ UNCHANGED <<probe, accounts, users, orders, mppayments, prefs, env>>

\* DELETE /api/auth/account: User.findByIdAndDelete(req.user._id); 500 when
\* the store fails.  The id is not used again: a later login of the same
\* person creates a document with a new _id.
DeleteAccount(r, u) ==
    \E ok \in BOOLEAN :
        /\ CanArrive(r)
        /\ u \in accounts
        /\ accounts' = IF ok THEN accounts \ {u} ELSE accounts
        /\ Continue(r, Answer("deleteAccount", u, IF ok THEN 200 ELSE 500))
        /\ arrived' = arrived + 1
        /\ UNCHANGED <<probe, users, orders, mppayments, prefs, env>>

\* The handler of a finished request has returned: its slot is free.
HandlerReturns(r) ==
    /\ reqs[r].pc = "done"
    /\ reqs' = [reqs EXCEPT ![r] = Idle]
    /\ UNCHANGED <<probe, accounts, users, orders, mppayments, prefs, env, arrived>>

\* ------------------------------------------------- the providers' side
\* The payer approves a created order on PayPal's site.
PayerApproves(o) ==
    /\ orders[o].status = "CREATED"
    /\ orders' = [orders EXCEPT ![o].status = "APPROVED"]
    /\ UNCHANGED <<probe, accounts, users, mppayments, prefs, env, reqs, arrived>>

\* A pending capture of a completed order completes.
CaptureSettles(o) ==
    /\ orders[o].captureStatus = "PENDING"
    /\ orders' = [orders EXCEPT ![o].captureStatus = "COMPLETED"]
    /\ UNCHANGED <<probe, accounts, users, mppayments, prefs, env, reqs, arrived>>

\* The states MercadoPago reports for a payment.
MercadoPagoStates ==
    {<<"pending", "pending_contingency">>, <<"approved", "accredited">>,
     <<"approved", "partially_refunded">>}

\* The payer pays a preference: a payment appears, in any state.
PayerPays(p) ==
    /\ mppayments[p].status = "NONE"
    /\ \E u \in prefs, st \in MercadoPagoStates :
        mppayments' = [mppayments EXCEPT ![p] =
            [status |-> st[1], status_detail |-> st[2], external_reference |-> u]]
    /\ UNCHANGED <<probe, accounts, users, orders, prefs, env, reqs, arrived>>

\* A pending payment is resolved.
PaymentResolves(p) ==
    /\ mppayments[p].status = "pending"
    /\ \E st \in MercadoPagoStates \ {<<"pending", "pending_contingency">>} :
        mppayments' = [mppayments EXCEPT ![p].status = st[1], ![p].status_detail = st[2]]
    /\ UNCHANGED <<probe, accounts, users, orders, prefs, env, reqs, arrived>>

\* ---------------------------------------------------------- specification
Next ==
    \/ \E r \in Slots : PayPalWebhookArrives(r)
    \/ \E r \in Slots : PayPalVerify(r)
    \/ \E r \in Slots : PayPalProcess(r)
    \/ \E r \in Slots : CaptureArrives(r)
    \/ \E r \in Slots : CaptureFetch(r)
    \/ \E r \in Slots : CaptureSend(r)
    \/ \E r \in Slots : StatusArrives(r)
    \/ \E r \in Slots : StatusFetch(r)
    \/ \E r \in Slots : MercadoPagoWebhookArrives(r)
    \/ \E r \in Slots : MercadoPagoFetch(r)
    \/ \E r \in Slots : Load(r)
    \/ \E r \in Slots : Save(r)
    \/ \E r \in Slots : SimulateArrives(r)
    \/ \E r \in Slots, u \in Buyers : CreatePayPalOrder(r, u)
    \/ \E r \in Slots, u \in Buyers : CreateMercadoPagoPreference(r, u)
    \/ \E r \in Slots, u \in Buyers : DeleteAccount(r, u)
    \/ \E r \in Slots : GetPaymentHistory(r)
    \/ \E r \in Slots : HandlerReturns(r)
    \/ \E o \in OrderIds : PayerApproves(o)
    \/ \E o \in OrderIds : CaptureSettles(o)
    \/ \E p \in PayIds : PayerPays(p)
    \/ \E p \in PayIds : PaymentResolves(p)

Spec == Init /\ [][Next]_vars

\* ------------------------------------- the final-success predicates alone
\* The statuses PayPal reports for an order and for its first capture, and
\* the statuses and details MercadoPago reports for a payment.
OrderStatuses ==
    {"CREATED", "SAVED", "APPROVED", "VOIDED", "COMPLETED", "PAYER_ACTION_REQUIRED"}
CaptureStatuses ==
    {"absent", "COMPLETED", "PENDING", "DECLINED", "PARTIALLY_REFUNDED", "REFUNDED", "FAILED"}
PaymentStatuses ==
    {"pending", "approved", "authorized", "in_process", "in_mediation",
     "rejected", "cancelled", "refunded", "charged_back"}
PaymentStatusDetails ==
    {"accredited", "pending_contingency", "pending_review_manual",
     "pending_waiting_payment", "partially_refunded", "cc_rejected_other_reason",
     "absent"}

\* Every answer a provider can give about one order or one payment.
ProviderAnswers ==
    {OrderDetails(o, [status |-> st, captureStatus |-> cs, custom_id |-> "u1"]) :
        o \in OrderIds, st \in OrderStatuses, cs \in CaptureStatuses}
    \cup
    {PaymentDetails(p, [status |-> st, status_detail |-> sd, external_reference |-> "u1"]) :
        p \in PayIds, st \in PaymentStatuses, sd \in PaymentStatusDetails}

PredicateInit ==
    /\ probe \in {[details |-> d, evaluated |-> FALSE, result |-> FALSE] : d \in ProviderAnswers}
    /\ users = [u \in Users |-> NewUser]
    /\ accounts = Users
    /\ orders = [o \in OrderIds |-> NoOrder]
    /\ mppayments = [p \in PayIds |-> NoPayment]
    /\ prefs = {}
    /\ env = [webhookId |-> TRUE]
    /\ reqs = [r \in Slots |-> Idle]
    /\ arrived = 0

\* paypalService.isPaymentCompleted(orderDetails) is called on the answer.
ApplyIsPaymentCompleted ==
    /\ ~probe.evaluated
    /\ probe.details.provider = "paypal"
    /\ probe' = [probe EXCEPT !.evaluated = TRUE,
                              !.result = isPaymentCompleted(probe.details)]
    /\ UNCHANGED <<users, accounts, orders, mppayments, prefs, env, reqs, arrived>>

\* mercadoPagoService.isPaymentApproved(paymentInfo) is called on the answer.
ApplyIsPaymentApproved ==
    /\ ~probe.evaluated
    /\ probe.details.provider = "mercadopago"
    /\ probe' = [probe EXCEPT !.evaluated = TRUE,
                              !.result = isPaymentApproved(probe.details)]
    /\ UNCHANGED <<users, accounts, orders, mppayments, prefs, env, reqs, arrived>>

PredicateNext == ApplyIsPaymentCompleted \/ ApplyIsPaymentApproved

PredicateSpec == PredicateInit /\ [][PredicateNext]_vars

\* ------------------------------------------------------------ properties
Webhooks == {"ppWebhook", "mpWebhook"}

\* The terminal combinations of section 4.1, written out: a MercadoPago
\* payment approved and accredited, a PayPal order completed whose first
\* capture is completed.
TerminalCombination(d) ==
    \/ /\ d.provider = "mercadopago"
       /\ d.status = "approved"
       /\ d.status_detail = "accredited"
    \/ /\ d.provider = "paypal"
       /\ d.status = "COMPLETED"
       /\ d.captureStatus = "COMPLETED"

\* The records of the payment a request reconciles that were already in the
\* copy of the user it loaded (the last record of the copy is its own push).
LoadedRecords(rq) ==
    {i \in 1..(Len(rq.user.payments) - 1) :
        \/ rq.user.payments[i].paymentId \in IdsOfPayment(rq.paymentId)
        \/ rq.user.payments[i].mercadoPagoId = rq.paymentId
        \/ rq.user.payments[i].paypalOrderId = rq.paymentId}

\* C1 (race-safe idempotency): when a reconcile call appends the record of a
\* payment that another call appended after the first one loaded its copy of
\* the user, the stored list still holds exactly one record of the payment.
C1_RaceSafeIdempotency ==
    \A r \in Slots :
        (reqs[r].reconciled /\ reqs[r].raced)
            => \A u \in Users : Cardinality(RecordsOf(u, reqs[r].paymentId)) = 1

\* C2 (sequential duplicate delivery): a webhook delivery that loads a user
\* who already holds the record of the payment never appends: it does not
\* get to user.save().
C2_DuplicateDeliveryNoOp ==
    \A r \in Slots :
        (reqs[r].kind \in Webhooks /\ reqs[r].pc = "save")
            => LoadedRecords(reqs[r]) = {}

\* C3 (order independence): once the capture endpoint has finished for a
\* completed order of its caller, the caller holds exactly one record of the
\* order, whether or not webhooks for the order were processed as well: the
\* state is the one a capture alone or a webhook alone leaves.
C3_OrderIndependence ==
    \A r \in Slots :
        (/\ reqs[r].kind = "capture"
         /\ reqs[r].pc = "done"
         /\ reqs[r].details.customRef = reqs[r].caller
         /\ isPaymentCompleted(reqs[r].details))
            => Cardinality(RecordsOf(reqs[r].caller, reqs[r].details.id)) = 1

\* C4 (capture endpoint success): the owner's capture request that sent the
\* capture and got back a completed order with a completed capture is
\* answered 200, and the stored user is PRO.
C4_CaptureEndpointSuccess ==
    \A r \in Slots :
        (/\ reqs[r].kind = "capture"
         /\ reqs[r].pc = "done"
         /\ reqs[r].sentCapture
         /\ reqs[r].details.customRef = reqs[r].caller
         /\ reqs[r].details.status = "COMPLETED"
         /\ reqs[r].details.captureStatus = "COMPLETED")
            => /\ reqs[r].resp = <<200>>
               /\ users[reqs[r].caller].isPro

\* C5 (unverified webhook rejection): a PayPal webhook whose verification
\* has not answered SUCCESS (no answer yet, FAILURE, a failing call, no
\* webhook id) has fetched no order, sent no capture and not reached
\* activateProPlan; and one that got further carried a valid signature.
C5_UnverifiedWebhookRejected ==
    \A r \in Slots :
        reqs[r].kind = "ppWebhook" =>
            /\ reqs[r].verification # "SUCCESS" =>
                    /\ reqs[r].pc \in {"verify", "done"}
                    /\ ~reqs[r].fetched
                    /\ ~reqs[r].sentCapture
                    /\ ~reqs[r].reconciled
                    /\ ~reqs[r].saved
            /\ reqs[r].pc \notin {"verify", "done"} => reqs[r].input.sig = "valid"

\* A webhook about an order that really is completed was discarded because
\* its verification did not succeed.
C5_Witness ==
    \E r \in Slots, o \in OrderIds :
        /\ reqs[r].kind = "ppWebhook"
        /\ reqs[r].pc = "done"
        /\ reqs[r].verification \in {"FAILURE", "error", "no webhook id"}
        /\ isPaymentCompleted(OrderDetails(o, orders[o]))

\* C6 (fast acknowledgment): every webhook request is answered 200, once,
\* and no provider call or store access of the request came before it.
C6_FastAck ==
    \A r \in Slots :
        reqs[r].kind \in Webhooks =>
            /\ reqs[r].resp = <<200>>
            /\ ~reqs[r].ioBeforeAck

\* C7 (attribution integrity): a capture or status request whose caller is
\* not the user the provider echoed is answered 403 and saves nothing.
C7_AttributionIntegrity ==
    \A r \in Slots :
        (/\ reqs[r].kind \in {"capture", "status"}
         /\ reqs[r].pc = "done"
         /\ reqs[r].fetched
         /\ reqs[r].details.customRef # reqs[r].caller)
            => /\ reqs[r].resp = <<403>>
               /\ ~reqs[r].saved

\* C8 (final-success predicates): the predicate of the provider answers true
\* exactly on the terminal combination, false on every other combination.
C8_FinalSuccessPredicates ==
    probe.evaluated => (probe.result <=> TerminalCombination(probe.details))

\* A completed order whose capture is pending was tested, and refused.
C8_Witness ==
    /\ probe.evaluated
    /\ ~probe.result
    /\ probe.details.status = "COMPLETED"
    /\ probe.details.captureStatus = "PENDING"

\* C9 (no grant without final success): every step that changes a stored
\* user is the save of a request; when that request is a webhook or a
\* capture, it fetched or captured, in this request, a provider state in a
\* terminal combination, and the record comes with the flag.
C9_NoGrantWithoutFinalSuccess ==
    [][\A u \in Users :
        users'[u] # users[u] =>
            \E r \in Slots :
                /\ reqs[r].pc = "save"
                /\ reqs[r].user.id = u
                /\ reqs'[r].saved
                /\ users'[u].isPro
                /\ Len(users'[u].payments) = Len(users[u].payments) + 1
                /\ reqs[r].kind \in Webhooks \cup {"capture"} =>
                        /\ reqs[r].fetched \/ reqs[r].sentCapture
                        /\ TerminalCombination(reqs[r].details)]_vars

\* A webhook granted PRO while another payment path had not.
C9_Witness ==
    \E r \in Slots, u \in Users :
        /\ reqs[r].kind \in Webhooks
        /\ reqs[r].pc = "done"
        /\ reqs[r].saved
        /\ users[u].isPro
        /\ Len(users[u].payments) = 1

\* C10 (capture conflict): a capture request that found the order neither
\* APPROVED nor COMPLETED has failed: no capture was sent, activateProPlan
\* was not reached, nothing was saved, and the answer is not a success.
C10_CaptureConflict ==
    \A r \in Slots :
        (/\ reqs[r].kind = "capture"
         /\ reqs[r].fetched
         /\ reqs[r].details.status \notin {"APPROVED", "COMPLETED"})
            => /\ reqs[r].pc = "done"
               /\ ~reqs[r].sentCapture
               /\ ~reqs[r].reconciled
               /\ ~reqs[r].saved
               /\ Len(reqs[r].resp) = 1
               /\ reqs[r].resp[1] # 200

\* The owner tried to capture an order the payer never approved.
C10_Witness ==
    \E r \in Slots :
        /\ reqs[r].kind = "capture"
        /\ reqs[r].pc = "done"
        /\ reqs[r].fetched
        /\ reqs[r].details.status = "CREATED"
        /\ reqs[r].details.customRef = reqs[r].caller
        /\ ~users[reqs[r].caller].isPro

\* C11 (capture conflict is a client error): a capture request that found
\* the order neither APPROVED nor COMPLETED is answered 400.
C11_CaptureConflictIs400 ==
    \A r \in Slots :
        (/\ reqs[r].kind = "capture"
         /\ reqs[r].pc = "done"
         /\ reqs[r].fetched
         /\ reqs[r].details.status \notin {"APPROVED", "COMPLETED"})
            => reqs[r].resp = <<400>>

\* C12 (capture is idempotent): a capture request of the owner that found
\* the order already completed, with a record of it on req.user, sent no capture
\* and is answered 200, and the user still holds one record of the order.
C12_CaptureIdempotent ==
    \A r \in Slots :
        (/\ reqs[r].kind = "capture"
         /\ reqs[r].pc = "done"
         /\ reqs[r].fetched
         /\ ~reqs[r].sentCapture
         /\ isPaymentCompleted(reqs[r].details)
         /\ reqs[r].details.customRef = reqs[r].caller
         /\ \E i \in 1..Len(reqs[r].user.payments) :
                reqs[r].user.payments[i].paymentId \in IdsOfPayment(reqs[r].details.id))
            => /\ reqs[r].resp = <<200>>
               /\ Cardinality(RecordsOf(reqs[r].caller, reqs[r].details.id)) = 1

\* C13 (a lost capture race counts as success): a capturePayment call whose
\* capture request PayPal refused because another call had captured the
\* order in between returns the captured order; it does not throw.
C13_LostCaptureRaceIsSuccess ==
    \A r \in Slots : reqs[r].lostRace => reqs[r].captured = "returned"

\* C14 (MercadoPago created events are ignored): a webhook whose action is
\* payment.created starts no provider fetch and reaches neither the user
\* lookup nor a save.
C14_CreatedEventIgnored ==
    \A r \in Slots :
        (reqs[r].kind = "mpWebhook" /\ reqs[r].input.action = "payment.created")
            => /\ reqs[r].pc \notin {"mpfetch", "load", "save"}
               /\ ~reqs[r].fetched

\* C15 (the PayPal webhook acts only on PAYMENT.CAPTURE.COMPLETED): a
\* webhook of any other event type starts no capture, sends no capture
\* request and reaches neither the user lookup nor a save.
C15_OnlyCaptureCompletedActs ==
    \A r \in Slots :
        (/\ reqs[r].kind = "ppWebhook"
         /\ reqs[r].input.event \in PayPalEvents \ {"PAYMENT.CAPTURE.COMPLETED"})
            => /\ reqs[r].pc \notin {"capfetch", "capsend", "load", "save"}
               /\ ~reqs[r].sentCapture

\* The create-intent requests.
CreateIntents == {"createOrder", "createPreference"}

\* C16 (create-intent refuses entitled users): a create-intent request of a
\* user whose PRO is active (flag set, no expiry) is answered 400 ALREADY_PRO
\* and creates no order and no preference; one that is answered 200 created
\* an order or a preference that carries the caller's id.
C16_CreateIntentRefusesEntitled ==
    [][\A r \in Slots :
        (reqs[r].pc = "idle" /\ reqs'[r].kind \in CreateIntents) =>
            LET u == reqs'[r].caller
            IN  IF users[u].isPro /\ users[u].proExpiresAt = "null"
                THEN /\ reqs'[r].resp = <<400>>
                     /\ orders' = orders
                     /\ prefs' = prefs
                ELSE reqs'[r].resp = <<200>> =>
                        IF reqs'[r].kind = "createOrder"
                        THEN \E o \in OrderIds :
                                /\ orders[o].status = "NONE"
                                /\ orders'[o].status = "CREATED"
                                /\ orders'[o].custom_id = u
                        ELSE u \in prefs']_vars

\* A PRO user asked for a new intent and was refused.
C16_Witness ==
    \E r \in Slots :
        /\ reqs[r].kind \in CreateIntents
        /\ reqs[r].pc = "done"
        /\ reqs[r].resp = <<400>>
        /\ users[reqs[r].caller].isPro

\* C17 (orphaned payment): a webhook whose provider reference resolved to
\* no stored user has ended: activateProPlan was not reached, nothing was
\* saved, the provider saw only the 200, and the request is not run again.
C17_OrphanedPayment ==
    \A r \in Slots :
        reqs[r].orphan =>
            /\ reqs[r].pc = "done"
            /\ ~reqs[r].reconciled
            /\ ~reqs[r].saved
            /\ reqs[r].resp = <<200>>

\* The webhook of a payment in final success found its user deleted.
C17_Witness ==
    \E r \in Slots, u \in Users :
        /\ reqs[r].kind \in Webhooks
        /\ reqs[r].orphan
        /\ u \notin accounts
        /\ \/ \E p \in PayIds :
                isPaymentApproved(PaymentDetails(p, mppayments[p]))
                    /\ mppayments[p].external_reference = u
           \/ \E o \in OrderIds :
                isPaymentCompleted(OrderDetails(o, orders[o]))
                    /\ orders[o].custom_id = u

\* ------------------------------------- the webhook-only MercadoPago flow
\* One checkout of a fresh user: the preference is created, the payer pays,
\* MercadoPago delivers one notification.  The provider lookup succeeds at
\* the last attempt at the latest and the save succeeds; every awaited call
\* eventually settles (the event loop runs each continuation).
LiveCreatePreference(r, u) ==
    /\ arrived = 0
    /\ CreateMercadoPagoPreference(r, u)

LiveWebhookArrives(r) ==
    /\ arrived = 1
    /\ MercadoPagoWebhookArrives(r)

LiveFetch(r) ==
    /\ MercadoPagoFetch(r)
    /\ reqs[r].attempt = maxRetries => reqs'[r].fetched

LiveSave(r) ==
    /\ Save(r)
    /\ reqs'[r].saved

LiveNext ==
    \/ \E r \in Slots, u \in Buyers : LiveCreatePreference(r, u)
    \/ \E r \in Slots : LiveWebhookArrives(r)
    \/ \E r \in Slots : LiveFetch(r)
    \/ \E r \in Slots : Load(r)
    \/ \E r \in Slots : LiveSave(r)
    \/ \E r \in Slots : HandlerReturns(r)
    \/ \E p \in PayIds : PayerPays(p)
    \/ \E p \in PayIds : PaymentResolves(p)

LiveSpec ==
    /\ Init
    /\ [][LiveNext]_vars
    /\ \A r \in Slots : WF_vars(LiveFetch(r))
    /\ \A r \in Slots : WF_vars(Load(r))
    /\ \A r \in Slots : WF_vars(LiveSave(r))

\* The notification of payment p, approved and accredited for the fresh
\* user u, is being handled.
WebhookDelivered(u, p) ==
    /\ \E r \in Slots :
        /\ reqs[r].kind = "mpWebhook"
        /\ reqs[r].pc = "mpfetch"
        /\ reqs[r].input.pid = Str(p)
    /\ mppayments[p].status = "approved"
    /\ mppayments[p].status_detail = "accredited"
    /\ mppayments[p].external_reference = u
    /\ ~users[u].isPro
    /\ users[u].payments = <<>>

\* C18 (webhook-only grant eventually happens): once the one notification
\* of an approved and accredited payment of a fresh user is being handled,
\* the user eventually is PRO with exactly one payment record.
C18_WebhookOnlyGrant ==
    \A u \in Buyers, p \in PayIds :
        WebhookDelivered(u, p) ~> (users[u].isPro /\ Len(users[u].payments) = 1)

\* The webhook alone granted PRO after the lookup had to be repeated.
C18_Witness ==
    \E r \in Slots, u \in Buyers :
        /\ reqs[r].kind = "mpWebhook"
        /\ reqs[r].pc = "done"
        /\ reqs[r].saved
        /\ users[u].isPro
        /\ Len(users[u].payments) = 1

C20_FoundNotFinalNotRetried ==
    [][\A r \in Slots :
        /\ (reqs[r].pc = "mpfetch" /\ reqs'[r].fetched) => reqs'[r].pc \in {"load", "done"}
        /\ (/\ reqs[r].kind = "mpWebhook"
            /\ reqs[r].pc = "load"
            /\ reqs'[r] # reqs[r]
            /\ ~(reqs[r].details.status = "approved"
                    /\ reqs[r].details.status_detail = "accredited"))
                => /\ reqs'[r].pc = "done"
                   /\ ~reqs'[r].reconciled
                   /\ users' = users]_vars

\* The webhook of a payment found pending ended without granting.
C20_Witness ==
    \E r \in Slots, p \in PayIds :
        /\ reqs[r].kind = "mpWebhook"
        /\ reqs[r].pc = "done"
        /\ reqs[r].fetched
        /\ ~reqs[r].reconciled
        /\ mppayments[p].status = "pending"

\* C21 (provider failures other than not-found are not retried): a
\* getPaymentInfo call whose last fetch failed with an error other than 404
\* is not about to fetch again.
C21_OtherFailureNotRetried ==
    \A r \in Slots : reqs[r].lastError = "error" => reqs[r].pc # "mpfetch"

\* C22 (flag and record move together): every stored user is PRO exactly
\* when it holds a payment record, a PRO user has no expiry date, and every
\* stored record carries the tag of the provider that produced it.
C22_FlagAndRecordTogether ==
    \A u \in Users :
        /\ users[u].isPro <=> users[u].payments # <<>>
        /\ users[u].isPro => users[u].proExpiresAt = "null"
        /\ \A i \in 1..Len(users[u].payments) :
                users[u].payments[i].provider \in {"paypal", "mercadopago", "simulation"}

\* The list a is the beginning of the list b.
IsPrefix(a, b) ==
    /\ Len(a) <= Len(b)
    /\ \A i \in 1..Len(a) : a[i] = b[i]

\* C23 (append-only history, no downgrade): across every step, each user's
\* stored payments list before the step is a prefix of the list after it,
\* and a user who is PRO stays PRO.
C23_AppendOnlyNoDowngrade ==
    [][\A u \in Users :
        /\ IsPrefix(users[u].payments, users'[u].payments)
        /\ users[u].isPro => users'[u].isPro]_vars

\* A record was appended to a history that already held one.
C23_Witness ==
    \E r \in Slots, u \in Users :
        /\ reqs[r].pc = "done"
        /\ reqs[r].saved
        /\ users[u].isPro
        /\ Len(users[u].payments) >= 2

\* C24 (failed persistence is retriable): a save that fails leaves every
\* stored user as it was and ends the request (a webhook has sent only its
\* 200, any other endpoint answers 500); a webhook that then loads the user
\* afresh for a payment in final success of which the user holds no record
\* goes on to save; and a save that succeeds appends exactly the one record
\* the request pushed.
C24_FailedSaveRetriable ==
    [][\A r \in Slots :
        /\ (reqs[r].pc = "save" /\ reqs'[r].saveFailed) =>
                /\ users' = users
                /\ reqs'[r].pc = "done"
                /\ ~reqs'[r].saved
                /\ IF reqs[r].kind \in Webhooks
                   THEN reqs'[r].resp = <<200>>
                   ELSE reqs'[r].resp = <<500>>
        /\ (/\ reqs[r].pc = "load"
            /\ reqs'[r] # reqs[r]
            /\ reqs[r].details.customRef \in accounts
            /\ IsFinalSuccess(reqs[r].details)
            /\ RecordsOf(reqs[r].details.customRef,
                         ActivatePaymentId(reqs[r].details, reqs[r].details.provider)) = {}) =>
                /\ reqs'[r].pc = "save"
                /\ Len(reqs'[r].user.payments)
                        = Len(users[reqs[r].details.customRef].payments) + 1
        /\ (reqs[r].pc = "save" /\ reqs'[r].saved) =>
                users'[reqs[r].user.id].payments =
                    Append(users[reqs[r].user.id].payments,
                           reqs[r].user.payments[Len(reqs[r].user.payments)])]_vars

\* The save of one delivery failed, the next delivery of the same payment
\* granted, and the user holds one record of the payment.
C24_Witness ==
    \E r1, r2 \in Slots, u \in Users :
        /\ reqs[r1].kind \in Webhooks
        /\ reqs[r1].saveFailed
        /\ reqs[r2].kind \in Webhooks
        /\ reqs[r2].saved
        /\ ~reqs[r2].stale
        /\ reqs[r2].paymentId = reqs[r1].paymentId
        /\ users[u].isPro
        /\ Cardinality(RecordsOf(u, reqs[r2].paymentId)) = 1

\* C25 (single mutation path): every request that is about to save a user,
\* or has saved one, came through activateProPlan's check-then-append.
C25_SingleMutationPath ==
    \A r \in Slots :
        (reqs[r].pc = "save" \/ reqs[r].saved) => reqs[r].reconciled

\* ------------------------------------------- two checkouts of one user
\* The buyer has started a checkout with each provider: the PayPal order
\* and the MercadoPago preference exist and carry the buyer's id (the state
\* CreatePayPalOrder and CreateMercadoPagoPreference leave), PAYPAL_WEBHOOK_ID
\* is set, and arrived counts the requests from here on.
CheckoutInit ==
    /\ probe = NoProbe
    /\ users = [u \in Users |-> NewUser]
    /\ accounts = Users
    /\ \E u \in Buyers :
        /\ orders = [o \in OrderIds |->
                        [status |-> "CREATED", captureStatus |-> "absent", custom_id |-> u]]
        /\ prefs = {u}
    /\ mppayments = [p \in PayIds |-> NoPayment]
    /\ env = [webhookId |-> TRUE]
    /\ reqs = [r \in Slots |-> Idle]
    /\ arrived = 0

\* The requests that arrive from here on are the ones that reconcile or
\* write a user: the webhooks of both providers, captures and simulations.
CheckoutNext ==
    \/ \E r \in Slots : PayPalWebhookArrives(r)
    \/ \E r \in Slots : PayPalVerify(r)
    \/ \E r \in Slots : PayPalProcess(r)
    \/ \E r \in Slots : CaptureArrives(r)
    \/ \E r \in Slots : CaptureFetch(r)
    \/ \E r \in Slots : CaptureSend(r)
    \/ \E r \in Slots : MercadoPagoWebhookArrives(r)
    \/ \E r \in Slots : MercadoPagoFetch(r)
    \/ \E r \in Slots : Load(r)
    \/ \E r \in Slots : Save(r)
    \/ \E r \in Slots : SimulateArrives(r)
    \/ \E r \in Slots : HandlerReturns(r)
    \/ \E o \in OrderIds : PayerApproves(o)
    \/ \E o \in OrderIds : CaptureSettles(o)
    \/ \E p \in PayIds : PayerPays(p)
    \/ \E p \in PayIds : PaymentResolves(p)

CheckoutSpec == CheckoutInit /\ [][CheckoutNext]_vars

\* C26 (no lost update across payments): when two reconcile calls for
\* different payments have both saved, one of them on a copy of the user that
\* was loaded before the other's record was stored, the stored list of one
\* user holds the records of both payments and the user is PRO.
C26_NoLostUpdate ==
    \A r1, r2 \in Slots :
        (/\ r1 # r2
         /\ reqs[r1].reconciled /\ reqs[r1].saved
         /\ reqs[r2].reconciled /\ reqs[r2].saved
         /\ reqs[r1].paymentId # reqs[r2].paymentId
         /\ reqs[r2].stale)
            => \E u \in Users :
                    /\ users[u].isPro
                    /\ RecordsOf(u, reqs[r1].paymentId) # {}
                    /\ RecordsOf(u, reqs[r2].paymentId) # {}

\* A PayPal webhook and a MercadoPago webhook of the same user saved one
\* after the other on copies both loaded from the empty history.
C26_Witness ==
    \E r1, r2 \in Slots, u \in Users :
        /\ reqs[r1].kind = "ppWebhook" /\ reqs[r1].saved
        /\ reqs[r2].kind = "mpWebhook" /\ reqs[r2].saved
        /\ reqs[r1].stale \/ reqs[r2].stale
        /\ Len(users[u].payments) = 2
        /\ RecordsOf(u, reqs[r1].paymentId) # {}
        /\ RecordsOf(u, reqs[r2].paymentId) # {}

\* C27 (MercadoPago webhook payloads are not trusted): the payment a webhook
\* works on is the one the provider returned for the id; the grant is decided
\* by that payment's status and detail and goes to the user of its external
\* reference, whatever the notification says and whichever format it has;
\* and the save of a webhook changes no other user.
C27_PayloadNotTrusted ==
    [][\A r \in Slots :
        reqs[r].kind = "mpWebhook" =>
            /\ (reqs[r].pc = "mpfetch" /\ reqs'[r].fetched) =>
                    /\ reqs'[r].pc = "load"
                    /\ reqs'[r].details =
                            PaymentDetails(reqs[r].input.pid[2], mppayments[reqs[r].input.pid[2]])
            /\ (reqs[r].pc = "load" /\ reqs'[r] # reqs[r]) =>
                    /\ reqs'[r].reconciled <=>
                            /\ reqs[r].details.customRef \in accounts
                            /\ reqs[r].details.status = "approved"
                            /\ reqs[r].details.status_detail = "accredited"
                    /\ reqs'[r].pc = "save" => reqs'[r].user.id = reqs[r].details.customRef
            /\ (reqs[r].pc = "save" /\ reqs'[r] # reqs[r]) =>
                    \A u \in Users \ {reqs[r].details.customRef} : users'[u] = users[u]]_vars

\* Two deliveries of the same payment, one in the new format saying nothing,
\* one in the legacy format announcing an approval for another user, are
\* about to save the same record for the same user.
C27_Witness ==
    \E r1, r2 \in Slots :
        /\ reqs[r1].kind = "mpWebhook" /\ reqs[r1].pc = "save"
        /\ reqs[r2].kind = "mpWebhook" /\ reqs[r2].pc = "save"
        /\ reqs[r1].input.pid = reqs[r2].input.pid
        /\ reqs[r1].input.action # "absent" /\ reqs[r1].input.embedded = NoEmbedded
        /\ reqs[r2].input.action = "absent" /\ reqs[r2].input.embedded.user = "u2"
        /\ reqs[r1].user = reqs[r2].user
        /\ reqs[r1].user.id = reqs[r1].details.customRef
        /\ reqs[r1].user.id # "u2"

\* C28 (a rejected capture has no provider side effect): for no capture
\* request of a user other than the one the order is attributed to has
\* PayPal performed the capture.
C28_RejectedCaptureNoSideEffect ==
    \A r \in Slots :
        (/\ reqs[r].kind = "capture"
         /\ reqs[r].fetched
         /\ reqs[r].details.customRef # reqs[r].caller)
            => ~(reqs[r].sentCapture /\ reqs[r].captured = "returned")

\* C29 (the stored PayPal record stays findable): once a PayPal webhook has
\* saved the record of an order, the idempotency lookup keyed by the order id
\* matches a stored record of some user.
C29_StoredPayPalRecordFindable ==
    \A r \in Slots :
        (reqs[r].kind = "ppWebhook" /\ reqs[r].reconciled /\ reqs[r].saved)
            => \E u \in Users : paymentExists(users[u].payments, reqs[r].paymentId)

\* C30 (grants go to the attributed user only): every stored record that is
\* not a simulation's comes from a PayPal order whose custom_id, or from a
\* MercadoPago payment whose external_reference, is the id of the user who
\* holds it; and a user is PRO only with a record.
C30_GrantsToAttributedUser ==
    \A u \in Users :
        /\ users[u].isPro => users[u].payments # <<>>
        /\ \A i \in 1..Len(users[u].payments) :
            LET rec == users[u].payments[i]
            IN  \/ rec.paymentId = mockPayment.paymentId
                \/ \E o \in OrderIds :
                        /\ rec.paymentId = Str(CaptureIdOf(o))
                        /\ orders[o].custom_id = u
                \/ \E p \in PayIds :
                        /\ rec.mercadoPagoId = Str(p)
                        /\ mppayments[p].external_reference = u

\* Another user's capture request captured the buyer's order and was
\* answered 403; the webhook then granted the buyer, and only the buyer.
C30_Witness ==
    \E r1, r2 \in Slots, u \in Users :
        /\ reqs[r1].kind = "capture"
        /\ reqs[r1].pc = "done"
        /\ reqs[r1].sentCapture
        /\ reqs[r1].caller # u
        /\ reqs[r1].details.customRef = u
        /\ ~users[reqs[r1].caller].isPro
        /\ reqs[r2].kind = "ppWebhook"
        /\ reqs[r2].saved
        /\ users[u].isPro
        /\ RecordsOf(u, reqs[r2].paymentId) # {}

====
